---- MODULE Spec2Model ----
(***************************************************************************)
(* nexus-fetch: a command line client that resolves and fetches Maven      *)
(* artifacts from a Nexus repository manager (src/main.go, the program     *)
(* that starts at line 373 of the file).                                   *)
(*                                                                         *)
(* Strings are sequences of one-character strings, so that splitting,      *)
(* replacing and suffix tests are computed character by character.  A      *)
(* fixed literal of a URL or of a header (the base URL, a REST path, the   *)
(* words attachment; filename=) is one symbol of such a sequence: no       *)
(* coordinate field ever holds such a symbol.                              *)
(***************************************************************************)
EXTENDS Integers, Sequences, FiniteSets, TLC

\* ------------------------------------------------------------------------
\* Bounds of the model
\* ------------------------------------------------------------------------

\* longest Group drawn for the coordinate functions
MaxGroupLen == 2

\* most artifacts, hits of an artifact and links of a hit in a search
\* response drawn for the projector
MaxArtifacts == 2
MaxHits == 2
MaxLinks == 2

\* most artifacts in a search response drawn for a run of main
MaxResults == 2

\* ------------------------------------------------------------------------
\* Strings
\* ------------------------------------------------------------------------

\* every string over alphabet of length at most n
RECURSIVE Strs(_, _)
Strs(alphabet, n) ==
    IF n = 0 THEN {<<>>}
    ELSE LET shorter == Strs(alphabet, n - 1)
         IN  shorter \cup {Append(s, c) : s \in shorter, c \in alphabet}

\* strings.Split(s, sep) for a one-character sep: the segments between the
\* occurrences of sep, always at least one segment
RECURSIVE SplitAcc(_, _, _, _)
SplitAcc(s, sep, i, cur) ==
    IF i > Len(s) THEN <<cur>>
    ELSE IF s[i] = sep THEN <<cur>> \o SplitAcc(s, sep, i + 1, <<>>)
    ELSE SplitAcc(s, sep, i + 1, Append(cur, s[i]))

Split(s, sep) == SplitAcc(s, sep, 1, <<>>)

\* strings.Replace(s, old, new, -1) for one-character old and new
Replace(s, old, new) == [i \in 1..Len(s) |-> IF s[i] = old THEN new ELSE s[i]]

\* strings.HasSuffix(s, suffix)
HasSuffix(s, suffix) ==
    /\ Len(s) >= Len(suffix)
    /\ SubSeq(s, Len(s) - Len(suffix) + 1, Len(s)) = suffix

\* whether character c occurs in s
Has(s, c) == \E i \in 1..Len(s) : s[i] = c

\* ------------------------------------------------------------------------
\* Coordinate model: type Gav and its conversions
\* ------------------------------------------------------------------------

\* the zero value of Gav
EmptyGav ==
    [Group |-> <<>>, Artifact |-> <<>>, Version |-> <<>>,
     Classifier |-> <<>>, Packaging |-> <<>>]

\* func (a Gav) ConciseNotation() string, had it written a separator after
\* Group and Artifact whether or not a later field is present
ConciseNotationAlwaysSeparated(a) ==
    a.Group \o <<":">> \o a.Artifact \o <<":">> \o a.Version
        \o (IF Len(a.Classifier) > 0 THEN <<":">> \o a.Classifier ELSE <<>>)
        \o (IF Len(a.Packaging) > 0 THEN <<"@">> \o a.Packaging ELSE <<>>)

\* func (a Gav) ConciseNotation() string
ConciseNotation(a) ==
    LET s1 == IF Len(a.Group) > 0 THEN a.Group ELSE <<>>
        s2 == IF Len(a.Artifact) > 0 \/ Len(a.Version) > 0
                 \/ Len(a.Classifier) > 0
              THEN s1 \o <<":">> ELSE s1
        s3 == IF Len(a.Artifact) > 0 THEN s2 \o a.Artifact ELSE s2
        s4 == IF Len(a.Version) > 0 \/ Len(a.Classifier) > 0
              THEN s3 \o <<":">> ELSE s3
        s5 == IF Len(a.Version) > 0 THEN s4 \o a.Version ELSE s4
        s6 == IF Len(a.Classifier) > 0
              THEN s5 \o <<":">> \o a.Classifier ELSE s5
        s7 == IF Len(a.Packaging) > 0
              THEN s6 \o <<"@">> \o a.Packaging ELSE s6
    IN  s7

\* func Concise(c string) Gav, had case 2 of its switch assigned the second
\* segment to Version
ConciseShifted(c) ==
    LET at   == Split(c, "@")
        pkg  == IF Len(at) > 1 THEN at[2] ELSE <<>>
        rest == IF Len(at) > 1 THEN at[1] ELSE c
        cs   == Split(rest, ":")
        n    == Len(cs)
    IN  [Group      |-> IF n \in 1..4 THEN cs[1] ELSE <<>>,
         Artifact   |-> IF n \in 3..4 THEN cs[2] ELSE <<>>,
         Version    |-> IF n = 2 THEN cs[2] ELSE IF n \in 3..4 THEN cs[3] ELSE <<>>,
         Classifier |-> IF n = 4 THEN cs[4] ELSE <<>>,
         Packaging  |-> pkg]

\* func Concise(c string) Gav
Concise(c) ==
    LET at   == Split(c, "@")
        pkg  == IF Len(at) > 1 THEN at[2] ELSE <<>>
        rest == IF Len(at) > 1 THEN at[1] ELSE c
        cs   == Split(rest, ":")
        n    == Len(cs)
    IN  [Group      |-> IF n \in 1..4 THEN cs[1] ELSE <<>>,
         Artifact   |-> IF n \in 2..4 THEN cs[2] ELSE <<>>,
         Version    |-> IF n \in 3..4 THEN cs[3] ELSE <<>>,
         Classifier |-> IF n = 4 THEN cs[4] ELSE <<>>,
         Packaging  |-> pkg]

\* func (a Gav) Filename() string
Filename(a) ==
    LET base == a.Artifact \o <<"-">> \o a.Version
        full == IF a.Classifier # <<>>
                THEN base \o <<"-">> \o a.Classifier ELSE base
        pkg  == IF a.Packaging = <<>> THEN <<"j", "a", "r">> ELSE a.Packaging
    IN  full \o <<".">> \o pkg

\* func (a Gav) DefaultLayout() string
DefaultLayout(a) ==
    Replace(a.Group, ".", "/") \o <<"/">> \o a.Artifact \o <<"/">>
        \o a.Version \o <<"/">> \o Filename(a)

\* func fullySpecified(fqa Fqa) bool, with RepositoryID left out of the test
fullySpecifiedGavOnly(fqa) ==
    /\ Len(fqa.Gav.Group) > 0
    /\ Len(fqa.Gav.Artifact) > 0
    /\ Len(fqa.Gav.Version) > 0

\* func fullySpecified(fqa Fqa) bool
fullySpecified(fqa) ==
    /\ Len(fqa.RepositoryID) > 0
    /\ Len(fqa.Gav.Group) > 0
    /\ Len(fqa.Gav.Artifact) > 0
    /\ Len(fqa.Gav.Version) > 0

\* ------------------------------------------------------------------------
\* URL builder
\* ------------------------------------------------------------------------

\* the NexusInstance main builds when no connection flag is given
DefaultInstance ==
    [Protocol |-> "http", Server |-> "localhost", Port |-> "8081",
     Contextroot |-> "nexus/", Username |-> "admin", Password |-> "admin123"]

\* func baseUrl(repo NexusRepository) *url.URL, as the string it prints to
baseUrl(inst) ==
    <<inst.Protocol \o "://" \o inst.Server \o ":" \o inst.Port \o "/"
        \o inst.Contextroot>>

\* func (a Fqa) ContentURL() string
ContentURL(a) ==
    baseUrl(a.Instance) \o <<"content/repositories/">> \o a.RepositoryID
        \o <<"/">> \o DefaultLayout(a.Gav)

\* func (a Fqa) RedirectURL() string
RedirectURL(a) ==
    baseUrl(a.Instance) \o <<"service/local/artifact/maven/redirect">>
        \o <<"?r=">> \o a.RepositoryID \o <<"&g=">> \o a.Gav.Group
        \o <<"&a=">> \o a.Gav.Artifact \o <<"&v=">> \o a.Gav.Version
        \o <<"&p=">> \o a.Gav.Packaging

\* func (a Gav) LuceneSearch() string
LuceneSearch(a) ==
    (IF a.Group # <<>> THEN <<"g=">> \o a.Group ELSE <<>>)
        \o (IF a.Artifact # <<>> THEN <<"&a=">> \o a.Artifact ELSE <<>>)
        \o (IF a.Version # <<>> THEN <<"&v=">> \o a.Version ELSE <<>>)
        \o (IF a.Packaging # <<>> THEN <<"&p=">> \o a.Packaging ELSE <<>>)
        \o (IF a.Classifier # <<>> THEN <<"&c=">> \o a.Classifier ELSE <<>>)

\* the URL func search requests
SearchURL(fqa) ==
    baseUrl(fqa.Instance) \o <<"service/local/lucene/search?">>
        \o LuceneSearch(fqa.Gav)
        \o (IF fqa.RepositoryID # <<>>
            THEN <<"&repositoryId=">> \o fqa.RepositoryID ELSE <<>>)

\* url.QueryEscape of one value: a character outside the unreserved ones is
\* percent-encoded (written as the symbol "%" followed by the character)
QueryEscape(s) ==
    [i \in 1..Len(s) |->
        IF s[i] \in {":", "@", "/", "&", "=", "?"} THEN "%" \o s[i] ELSE s[i]]

\* url.Values.Encode() of the parameters func content and func resolve set:
\* r always, the others when non-empty, sorted by key
QueryOf(fqa) ==
    LET g == fqa.Gav
        pairs == <<<<"a=", g.Artifact>>, <<"c=", g.Classifier>>,
                   <<"g=", g.Group>>, <<"p=", g.Packaging>>,
                   <<"r=", fqa.RepositoryID>>, <<"v=", g.Version>>>>
        Part(n) == IF pairs[n][1] = "r=" \/ Len(pairs[n][2]) > 0
                   THEN <<pairs[n][1]>> \o QueryEscape(pairs[n][2]) \o <<"&">>
                   ELSE <<>>
        all == Part(1) \o Part(2) \o Part(3) \o Part(4) \o Part(5) \o Part(6)
    IN  SubSeq(all, 1, Len(all) - 1)

\* the URL func content requests
ContentQueryURL(fqa) ==
    baseUrl(fqa.Instance) \o <<"service/local/artifact/maven/content">>
        \o <<"?">> \o QueryOf(fqa)

\* the URL func resolve requests
ResolveURL(fqa) ==
    baseUrl(fqa.Instance) \o <<"service/local/artifact/maven/resolve">>
        \o <<"?">> \o QueryOf(fqa)

\* the test main makes to route a search result through the redirect
\* service, with the version keyword LATEST routed there as well
IsSnapshotOrKeyword(version) ==
    \/ HasSuffix(version, <<"S", "N", "A", "P", "S", "H", "O", "T">>)
    \/ version = <<"L", "A", "T", "E", "S", "T">>

\* strings.HasSuffix(a.Gav.Version, "SNAPSHOT")
IsSnapshot(version) ==
    HasSuffix(version, <<"S", "N", "A", "P", "S", "H", "O", "T">>)

\* the URL main fetches a search result from
FetchURL(a) ==
    IF IsSnapshot(a.Gav.Version) THEN RedirectURL(a) ELSE ContentURL(a)

\* ------------------------------------------------------------------------
\* HTTP responses and the filename resolver
\* ------------------------------------------------------------------------

StatusOK == 200
StatusNotFound == 404

\* the literal words of a Content-Disposition header the pattern looks for
Attachment == "attachment; filename="
Quote == "\""

\* regexp `attachment; filename="(.*)"` FindStringSubmatch(v): <<>> (nil)
\* when v has no match, else the match and its group; the match is the
\* leftmost one and .* is greedy, so the group runs to the last quote of v
FindStringSubmatch(v) ==
    LET starts == {i \in 1..(Len(v) - 2) :
                      /\ v[i] = Attachment
                      /\ v[i + 1] = Quote
                      /\ \E j \in (i + 2)..Len(v) : v[j] = Quote}
    IN  IF starts = {} THEN <<>>
        ELSE LET i == CHOOSE x \in starts : \A y \in starts : x <= y
                 j == CHOOSE x \in (i + 2)..Len(v) :
                          /\ v[x] = Quote
                          /\ \A y \in (x + 1)..Len(v) : v[y] # Quote
             IN  <<SubSeq(v, i, j), SubSeq(v, i + 2, j - 1)>>

\* func contentDisposition(res *http.Response) string: ss[1], which panics
\* (index out of range) when ss is nil
contentDisposition(cd) ==
    LET ss == FindStringSubmatch(cd)
    IN  IF Len(ss) < 2 THEN [panic |-> TRUE, name |-> <<>>]
        ELSE [panic |-> FALSE, name |-> ss[2]]

\* func filename(userSupplied string, res *http.Response, gav Gav) string
filename(userSupplied, cd, gav) ==
    IF Len(userSupplied) > 0 THEN [panic |-> FALSE, name |-> userSupplied]
    ELSE LET f == contentDisposition(cd)
         IN  IF f.panic THEN f
             ELSE IF Len(f.name) > 0 THEN f
             ELSE [panic |-> FALSE, name |-> Filename(gav)]

\* ------------------------------------------------------------------------
\* Search result projector
\* ------------------------------------------------------------------------

\* the Fqa func locations builds for one link of one hit of one artifact
LocationOf(a, hit, link, inst) ==
    [Instance |-> inst, RepositoryID |-> hit.RepositoryID,
     Gav |-> [Group |-> a.Group, Artifact |-> a.Artifact,
              Version |-> a.Version, Classifier |-> link.Classifier,
              Packaging |-> link.Packaging]]

\* the innermost loop of func locations, from link k on
RECURSIVE LocationsOfLinks(_, _, _, _)
LocationsOfLinks(a, hit, inst, k) ==
    IF k > Len(hit.ArtifactLinks) THEN <<>>
    ELSE <<LocationOf(a, hit, hit.ArtifactLinks[k], inst)>>
             \o LocationsOfLinks(a, hit, inst, k + 1)

\* the middle loop of func locations, from hit j on
RECURSIVE LocationsOfHits(_, _, _)
LocationsOfHits(a, inst, j) ==
    IF j > Len(a.ArtifactHits) THEN <<>>
    ELSE LocationsOfLinks(a, a.ArtifactHits[j], inst, 1)
             \o LocationsOfHits(a, inst, j + 1)

\* the outer loop of func locations, from artifact i on
RECURSIVE LocationsOfArtifacts(_, _, _)
LocationsOfArtifacts(found, inst, n) ==
    IF n > Len(found.Artifacts) THEN <<>>
    ELSE LocationsOfHits(found.Artifacts[n], inst, 1)
             \o LocationsOfArtifacts(found, inst, n + 1)

\* func locations with the two inner loops exchanged: links outermost
RECURSIVE LocationsLinkMajor(_, _, _, _)
LocationsLinkMajor(a, inst, k, j) ==
    IF \A h \in 1..Len(a.ArtifactHits) : k > Len(a.ArtifactHits[h].ArtifactLinks)
    THEN <<>>
    ELSE IF j > Len(a.ArtifactHits) THEN LocationsLinkMajor(a, inst, k + 1, 1)
    ELSE (IF k <= Len(a.ArtifactHits[j].ArtifactLinks)
          THEN <<LocationOf(a, a.ArtifactHits[j],
                            a.ArtifactHits[j].ArtifactLinks[k], inst)>>
          ELSE <<>>) \o LocationsLinkMajor(a, inst, k, j + 1)

RECURSIVE locationsSwapped(_, _)
locationsSwapped(found, inst) ==
    IF Len(found.Artifacts) = 0 THEN <<>>
    ELSE LocationsLinkMajor(found.Artifacts[1], inst, 1, 1)
             \o locationsSwapped(
                    [found EXCEPT !.Artifacts = Tail(found.Artifacts)], inst)

\* func locations(res searchNGResponse, inst NexusInstance) []Fqa
locations(found, inst) == LocationsOfArtifacts(found, inst, 1)

\* ------------------------------------------------------------------------
\* State
\* ------------------------------------------------------------------------

VARIABLES
    \* the coordinate functions applied on their own
    cpc,      \* which of them have been applied
    cg,       \* the Gav they are applied to
    text,     \* cg.ConciseNotation()
    parsed,   \* Concise(text)
    layout,   \* cg.DefaultLayout()
    \* func locations applied on its own
    ppc,      \* whether it has been applied
    pres,     \* the searchNGResponse passed to it
    pls,      \* its result
    \* one run of main
    pc,       \* where main is
    cmd,      \* the command line: positional arguments and flags
    fqa,      \* main's fqa (its Gav is main's gav)
    res,      \* main's res, the search response
    ls,       \* main's ls, the projected list
    idx,      \* position of the range loop in ls
    resp,     \* the *http.Response of the last call
    named,    \* the last call of func filename: arguments and result
    log,      \* what the run did to the outside: calls, files, output
    how,      \* how the process ended
    exitCode  \* its exit code, -1 while it runs

coordVars == <<cpc, cg, text, parsed, layout>>
projVars == <<ppc, pres, pls>>
mainVars == <<pc, cmd, fqa, res, ls, idx, resp, named, log, how, exitCode>>

vars == <<cpc, cg, text, parsed, layout, ppc, pres, pls,
          pc, cmd, fqa, res, ls, idx, resp, named, log, how, exitCode>>

\* sequences over S of length at most n
SeqsUpTo(S, n) == UNION {[1..k -> S] : k \in 0..n}

Releases == <<"r", "e", "l", "e", "a", "s", "e", "s">>
Snapshots == <<"s", "n", "a", "p", "s", "h", "o", "t", "s">>
Jar == <<"j", "a", "r">>
Pom == <<"p", "o", "m">>

\* the zero values main's variables hold before they are assigned
NoResponse == [err |-> FALSE, status |-> 0, cd |-> <<>>]
NoSearchResponse == [TooManyResults |-> FALSE, Artifacts |-> <<>>]
NoName ==
    [called |-> FALSE, userSupplied |-> <<>>, cd |-> <<>>, gav |-> EmptyGav,
     panic |-> FALSE, name |-> <<>>]
NoFqa == [Instance |-> DefaultInstance, RepositoryID |-> <<>>, Gav |-> EmptyGav]
NoCommand ==
    [nargs |-> 0, arg |-> <<>>, flags |-> EmptyGav, repository |-> <<>>,
     abortOnNotFound |-> FALSE, fetch |-> FALSE, outputFilename |-> <<>>]

CoordIdle ==
    /\ cpc = "off"
    /\ cg = EmptyGav
    /\ text = <<>>
    /\ parsed = EmptyGav
    /\ layout = <<>>

ProjIdle ==
    /\ ppc = "off"
    /\ pres = NoSearchResponse
    /\ pls = <<>>

MainIdle ==
    /\ pc = "off"
    /\ cmd = NoCommand
    /\ fqa = NoFqa
    /\ res = NoSearchResponse
    /\ ls = <<>>
    /\ idx = 0
    /\ resp = NoResponse
    /\ named = NoName
    /\ log = <<>>
    /\ how = "running"
    /\ exitCode = -1

\* ------------------------------------------------------------------------
\* The coordinate functions applied to every Gav of a bounded set
\* ------------------------------------------------------------------------

GroupChars == {"g", ".", ":", "@"}
ArtifactSamples == {<<>>, <<"a">>, <<"a", ":">>}
VersionSamples == {<<>>, <<"1">>, <<"@", "1">>}
ClassifierSamples == {<<>>, <<"c">>, <<":", "c">>}
PackagingSamples == {<<>>, <<"w", "a", "r">>, <<"w", "@">>}

Gavs ==
    [Group : Strs(GroupChars, MaxGroupLen), Artifact : ArtifactSamples,
     Version : VersionSamples, Classifier : ClassifierSamples,
     Packaging : PackagingSamples]

CoordInit ==
    /\ cpc = "input"
    /\ cg \in Gavs
    /\ text = <<>>
    /\ parsed = EmptyGav
    /\ layout = <<>>
    /\ ProjIdle
    /\ MainIdle

\* text := cg.ConciseNotation()
Render ==
    /\ cpc = "input"
    /\ text' = ConciseNotation(cg)
    /\ cpc' = "rendered"
    /\ UNCHANGED <<cg, parsed, layout, projVars, mainVars>>

\* parsed := Concise(text)
Parse ==
    /\ cpc = "rendered"
    /\ parsed' = Concise(text)
    /\ cpc' = "parsed"
    /\ UNCHANGED <<cg, text, layout, projVars, mainVars>>

\* layout := cg.DefaultLayout()
Layout ==
    /\ cpc = "input"
    /\ layout' = DefaultLayout(cg)
    /\ cpc' = "laidout"
    /\ UNCHANGED <<cg, text, parsed, projVars, mainVars>>

CoordNext == Render \/ Parse \/ Layout

SpecCoord == CoordInit /\ [][CoordNext]_vars

\* ------------------------------------------------------------------------
\* func locations applied to every search response of a bounded shape
\* ------------------------------------------------------------------------

\* the values that tell the n-th artifact, hit and link of a response from
\* the others
Ordinals == <<"1", "2", "3", "4">>

\* the link at place k of a hit: jar and pom alternate
LinkAt(k) ==
    [Packaging |-> IF k % 2 = 1 THEN Jar ELSE Pom, Classifier |-> <<Ordinals[k]>>]

\* a hit at place j of an artifact, with n links
HitAt(j, n) ==
    [RepositoryID |-> <<"r", Ordinals[j]>>,
     ArtifactLinks |-> [k \in 1..n |-> LinkAt(k)]]

\* the shapes of an artifact: the number of links of each of its hits
Shapes == SeqsUpTo(0..MaxLinks, MaxHits)

\* the artifact at place n of a response, of the given shape
ArtifactAt(n, shape) ==
    [Group |-> <<"g">>, Artifact |-> <<"a">>, Version |-> <<Ordinals[n]>>,
     ArtifactHits |-> [j \in 1..Len(shape) |-> HitAt(j, shape[j])]]

\* the search response whose artifacts have the given shapes
ResponseOf(shapes) ==
    [TooManyResults |-> FALSE,
     Artifacts |-> [n \in 1..Len(shapes) |-> ArtifactAt(n, shapes[n])]]

\* every search response of at most MaxArtifacts artifacts, each of at most
\* MaxHits hits of at most MaxLinks links
ProjInit ==
    /\ CoordIdle
    /\ MainIdle
    /\ ppc = "input"
    /\ pls = <<>>
    /\ \E n \in 0..MaxArtifacts :
           \E shapes \in [1..n -> Shapes] : pres = ResponseOf(shapes)

\* pls := locations(pres, inst)
Project ==
    /\ ppc = "input"
    /\ pls' = locations(pres, DefaultInstance)
    /\ ppc' = "projected"
    /\ UNCHANGED <<pres, coordVars, mainVars>>

SpecProj == ProjInit /\ [][Project]_vars

\* ------------------------------------------------------------------------
\* One run of main
\* ------------------------------------------------------------------------

\* coordinates given by flags: none, partial, complete, complete with
\* classifier and packaging
FlagGavs ==
    {EmptyGav,
     [EmptyGav EXCEPT !.Group = <<"g", ".", "h">>, !.Artifact = <<"a">>],
     [EmptyGav EXCEPT !.Group = <<"g", ".", "h">>, !.Artifact = <<"a">>,
                      !.Version = <<"1">>],
     [EmptyGav EXCEPT !.Group = <<"g", ".", "h">>, !.Artifact = <<"a">>,
                      !.Version = <<"2">>, !.Classifier = <<"c">>,
                      !.Packaging = <<"w", "a", "r">>]}

\* a coordinate given as the positional argument: g.h:a:1 and g.h:a
ConciseArgs ==
    {<<"g", ".", "h", ":", "a", ":", "1">>, <<"g", ".", "h", ":", "a">>}

\* the command lines of a run: flag.NArg() positional arguments (two stand
\* for any number above one), the coordinate flags, -repository,
\* -abortOnNotFound, -fetch and -outputFilename; the connection flags and
\* -outputDir keep their defaults
CommandLines ==
    {[nargs |-> n, arg |-> a, flags |-> f, repository |-> r,
      abortOnNotFound |-> ab, fetch |-> fe, outputFilename |-> o] :
        n \in 0..2, a \in ConciseArgs \cup {<<>>}, f \in FlagGavs,
        r \in {<<>>, Releases}, ab \in BOOLEAN, fe \in BOOLEAN,
        o \in {<<>>, <<"o", "u", "t">>}}

\* the command lines drawn: the positional argument is there when
\* flag.NArg() is not 0, and the coordinate flags that go with it are none
\* or one set
WellFormedCommandLine(c) ==
    /\ (c.nargs = 0) = (c.arg = <<>>)
    /\ c.nargs = 1 => c.flags \in
           {EmptyGav,
            [EmptyGav EXCEPT !.Group = <<"g", ".", "h">>, !.Artifact = <<"a">>]}
    /\ c.nargs = 2 => c.flags = EmptyGav /\ c.arg = <<"g", ".", "h", ":", "a">>

\* what http.Get returns: an error, or a response with a status and a
\* Content-Disposition header (empty when the header is absent)
DispositionSamples ==
    {<<>>,
     <<Attachment, Quote, "x", ".", "j", "a", "r", Quote>>,
     <<Attachment, Quote, Quote>>,
     <<"i", "n", "l", "i", "n", "e">>}

HttpOutcomes ==
    {[err |-> TRUE, status |-> 0, cd |-> <<>>]}
        \cup [err : {FALSE}, status : {StatusOK, StatusNotFound},
              cd : DispositionSamples]

\* the artifacts a search response is made of
JarLink == [Packaging |-> Jar, Classifier |-> <<>>]
PomLink == [Packaging |-> Pom, Classifier |-> <<>>]
SourcesLink == [Packaging |-> Jar, Classifier |-> <<"s">>]

FoundSamples ==
    {[Group |-> <<"g", ".", "h">>, Artifact |-> <<"a">>, Version |-> <<"1">>,
      ArtifactHits |->
          <<[RepositoryID |-> Releases, ArtifactLinks |-> <<JarLink>>]>>],
     [Group |-> <<"g", ".", "h">>, Artifact |-> <<"a">>,
      Version |-> <<"1", "-", "S", "N", "A", "P", "S", "H", "O", "T">>,
      ArtifactHits |->
          <<[RepositoryID |-> Snapshots,
             ArtifactLinks |-> <<PomLink, JarLink>>]>>],
     [Group |-> <<"g", ".", "h">>, Artifact |-> <<"a">>,
      Version |-> <<"L", "A", "T", "E", "S", "T">>,
      ArtifactHits |->
          <<[RepositoryID |-> Releases, ArtifactLinks |-> <<SourcesLink>>]>>],
     [Group |-> <<"g", ".", "h">>, Artifact |-> <<"b">>,
      Version |-> <<"S", "N", "A", "P", "S", "H", "O", "T", ".", "1">>,
      ArtifactHits |->
          <<[RepositoryID |-> Releases, ArtifactLinks |-> <<PomLink>>]>>],
     [Group |-> <<"g", ".", "h">>, Artifact |-> <<"b">>, Version |-> <<"2">>,
      ArtifactHits |-> <<>>]}

\* the search responses the server may send: Count, From and TotalCount
\* are only logged and are left out
SearchResponses ==
    [TooManyResults : BOOLEAN, Artifacts : SeqsUpTo(FoundSamples, MaxResults)]

\* an entry of log; k is the place in ls of the entry a fetch is for
Event(ev, url, status, path, k) ==
    [ev |-> ev, url |-> url, status |-> status, path |-> path, k |-> k]

\* the process ends
Ends(why, code) ==
    /\ pc' = "done"
    /\ how' = why
    /\ exitCode' = code

Init ==
    /\ pc = "start"
    /\ cmd \in {c \in CommandLines : WellFormedCommandLine(c)}
    /\ fqa = NoFqa
    /\ res = NoSearchResponse
    /\ ls = <<>>
    /\ idx = 0
    /\ resp = NoResponse
    /\ named = NoName
    /\ log = <<>>
    /\ how = "running"
    /\ exitCode = -1
    /\ CoordIdle
    /\ ProjIdle

\* main, from flag.Parse() to the choice of path: the Gav comes from the
\* flags or from the positional argument, more than one argument is a usage
\* error (flag.Usage exits with 2)
ParseArgs ==
    /\ pc = "start"
    /\ IF cmd.nargs > 1
       THEN /\ Ends("usage", 2)
            /\ UNCHANGED fqa
       ELSE LET gav == IF cmd.nargs = 0 THEN cmd.flags ELSE Concise(cmd.arg)
                f   == [Instance |-> DefaultInstance,
                        RepositoryID |-> cmd.repository, Gav |-> gav]
            IN  /\ fqa' = f
                /\ pc' = IF fullySpecified(f)
                         THEN (IF cmd.fetch THEN "content" ELSE "resolve")
                         ELSE "search"
                /\ UNCHANGED <<how, exitCode>>
    /\ UNCHANGED <<cmd, res, ls, idx, resp, named, log, coordVars, projVars>>

\* a call that log.Fatalf ends unless the status is 200
DirectCall(ev, url, next) ==
    /\ \E r \in HttpOutcomes :
        /\ log' = Append(log, Event(ev, url, r.status, <<>>, 0))
        /\ resp' = r
        /\ IF r.err \/ r.status # StatusOK
           THEN Ends("fatal", 1)
           ELSE pc' = next /\ UNCHANGED <<how, exitCode>>
    /\ UNCHANGED <<cmd, fqa, res, ls, idx, named, coordVars, projVars>>

\* res = content(fqa)
Content ==
    /\ pc = "content"
    /\ DirectCall("content", ContentQueryURL(fqa), "persist")

\* res = resolve(fqa)
Resolve ==
    /\ pc = "resolve"
    /\ DirectCall("resolve", ResolveURL(fqa), "print")

\* f := filename(*outputFilename, res, gav); persistBody(res, *outputDir, f):
\* filename may panic (exit code 2), reading the body or writing the file
\* may fail (log.Fatal); the file is written under outputDir, ".", so that
\* its path is the name
PersistAs(gav, k, next) ==
    LET f == filename(cmd.outputFilename, resp.cd, gav)
    IN  /\ named' = [called |-> TRUE, userSupplied |-> cmd.outputFilename,
                     cd |-> resp.cd, gav |-> gav, panic |-> f.panic,
                     name |-> f.name]
        /\ IF f.panic
           THEN /\ Ends("panic", 2)
                /\ UNCHANGED <<log, idx>>
           ELSE \E io \in {"ok", "fail"} :
                   IF io = "fail"
                   THEN /\ Ends("fatal", 1)
                        /\ UNCHANGED <<log, idx>>
                   ELSE /\ log' = Append(log,
                                Event("persist", <<>>, resp.status, f.name, k))
                        /\ pc' = next
                        /\ idx' = IF k > 0 THEN idx + 1 ELSE idx
                        /\ UNCHANGED <<how, exitCode>>
        /\ UNCHANGED <<cmd, fqa, res, ls, resp, coordVars, projVars>>

\* the fetch branch of the direct path after content returned
PersistContent ==
    /\ pc = "persist"
    /\ PersistAs(fqa.Gav, 0, "checkNotFound")

\* print(res): reading the body may fail (log.Fatal)
PrintResolved ==
    /\ pc = "print"
    /\ \E io \in {"ok", "fail"} :
        IF io = "fail"
        THEN /\ Ends("fatal", 1)
             /\ UNCHANGED log
        ELSE /\ log' = Append(log, Event("print", <<>>, resp.status, <<>>, 0))
             /\ pc' = "checkNotFound"
             /\ UNCHANGED <<how, exitCode>>
    /\ UNCHANGED <<cmd, fqa, res, ls, idx, resp, named, coordVars, projVars>>

\* if res.StatusCode == http.StatusNotFound && *abortOnNotFound
\* { os.Exit(4) }; os.Exit(0)
CheckNotFound ==
    /\ pc = "checkNotFound"
    /\ Ends("exit",
            IF resp.status = StatusNotFound /\ cmd.abortOnNotFound
            THEN 4 ELSE 0)
    /\ UNCHANGED <<cmd, fqa, res, ls, idx, resp, named, log, coordVars,
                   projVars>>

\* res := search(repo, gav): log.Fatal on a transport error, a status other
\* than 200, or a body that cannot be read or unmarshalled; the response
\* carries no Content-Disposition header, which search does not read
Search ==
    /\ pc = "search"
    /\ \E r \in {o \in HttpOutcomes : o.cd = <<>>} :
        /\ log' = Append(log, Event("search", SearchURL(fqa), r.status, <<>>, 0))
        /\ resp' = r
        /\ IF r.err \/ r.status # StatusOK
           THEN /\ Ends("fatal", 1)
                /\ UNCHANGED res
           ELSE \E readable \in BOOLEAN :
                   IF ~readable
                   THEN /\ Ends("fatal", 1)
                        /\ UNCHANGED res
                   ELSE /\ res' \in SearchResponses
                        /\ pc' = "locate"
                        /\ UNCHANGED <<how, exitCode>>
    /\ UNCHANGED <<cmd, fqa, ls, idx, named, coordVars, projVars>>

\* the test of main on the projected list, made on the entries that are
\* not POMs
AbortsOnEmptyFiltered(found) ==
    /\ cmd.abortOnNotFound
    /\ \A k \in 1..Len(found) : found[k].Gav.Packaging = Pom

\* *abortOnNotFound && len(ls) == 0
AbortsOnEmpty(found) == cmd.abortOnNotFound /\ Len(found) = 0

\* the step of main after search, had it given up on a truncated response
\* (TooManyResults) instead of going on with the entries returned
LocateStopsOnTruncation ==
    /\ pc = "locate"
    /\ LET found == locations(res, DefaultInstance)
       IN  /\ ls' = found
           /\ IF res.TooManyResults
              THEN Ends("fatal", 1) /\ UNCHANGED idx
              ELSE IF AbortsOnEmpty(found)
              THEN Ends("exit", 4) /\ UNCHANGED idx
              ELSE pc' = "loop" /\ idx' = 1 /\ UNCHANGED <<how, exitCode>>
    /\ UNCHANGED <<cmd, fqa, res, resp, named, log, coordVars, projVars>>

\* ls := locations(res, inst), and the exit with 4 on an empty list
Locate ==
    /\ pc = "locate"
    /\ LET found == locations(res, DefaultInstance)
       IN  /\ ls' = found
           /\ IF AbortsOnEmpty(found)
              THEN Ends("exit", 4) /\ UNCHANGED idx
              ELSE pc' = "loop" /\ idx' = 1 /\ UNCHANGED <<how, exitCode>>
    /\ UNCHANGED <<cmd, fqa, res, resp, named, log, coordVars, projVars>>

\* an iteration of the range loop on a POM: continue
SkipPom ==
    /\ pc = "loop"
    /\ idx <= Len(ls)
    /\ ls[idx].Gav.Packaging = Pom
    /\ idx' = idx + 1
    /\ UNCHANGED <<pc, cmd, fqa, res, ls, resp, named, log, how, exitCode,
                   coordVars, projVars>>

\* an iteration of the range loop when -fetch=false: the URL is computed
\* and nothing is requested
NoFetch ==
    /\ pc = "loop"
    /\ idx <= Len(ls)
    /\ ls[idx].Gav.Packaging # Pom
    /\ ~cmd.fetch
    /\ idx' = idx + 1
    /\ UNCHANGED <<pc, cmd, fqa, res, ls, resp, named, log, how, exitCode,
                   coordVars, projVars>>

\* res, err := http.Get(url) in the range loop: log.Fatal on an error, the
\* status is not looked at
Fetch ==
    /\ pc = "loop"
    /\ idx <= Len(ls)
    /\ ls[idx].Gav.Packaging # Pom
    /\ cmd.fetch
    /\ \E r \in HttpOutcomes :
        /\ log' = Append(log, Event("fetch", FetchURL(ls[idx]), r.status, <<>>, idx))
        /\ resp' = r
        /\ IF r.err
           THEN Ends("fatal", 1)
           ELSE pc' = "persistFetched" /\ UNCHANGED <<how, exitCode>>
    /\ UNCHANGED <<cmd, fqa, res, ls, idx, named, coordVars, projVars>>

\* f := filename(*outputFilename, res, gav); persistBody(res, *outputDir, f)
\* in the range loop: gav is the Gav of the command line
PersistFetched ==
    /\ pc = "persistFetched"
    /\ PersistAs(fqa.Gav, idx, "loop")

\* the range loop is over and main returns
Return ==
    /\ pc = "loop"
    /\ idx > Len(ls)
    /\ Ends("return", 0)
    /\ UNCHANGED <<cmd, fqa, res, ls, idx, resp, named, log, coordVars,
                   projVars>>

Next ==
    \/ ParseArgs
    \/ Content
    \/ PersistContent
    \/ Resolve
    \/ PrintResolved
    \/ CheckNotFound
    \/ Search
    \/ Locate
    \/ SkipPom
    \/ NoFetch
    \/ Fetch
    \/ PersistFetched
    \/ Return

Spec == Init /\ [][Next]_vars

\* ------------------------------------------------------------------------
\* Properties of the coordinate functions (checked under SpecCoord)
\* ------------------------------------------------------------------------

\* no field of g holds a separator character
SeparatorFree(g) ==
    \A f \in {g.Group, g.Artifact, g.Version, g.Classifier, g.Packaging} :
        ~Has(f, ":") /\ ~Has(f, "@")

\* the '@packaging' part a rendering of cg ends with
PackagingPart ==
    IF Len(cg.Packaging) > 0 THEN <<"@">> \o cg.Packaging ELSE <<>>

\* the rendered text before its '@packaging' part
NotationHead == SubSeq(text, 1, Len(text) - Len(PackagingPart))

\* the index of the last non-empty field among Group, Artifact, Version,
\* Classifier (1 when only Group, or none, is present)
LastPresent ==
    IF Len(cg.Classifier) > 0 THEN 4
    ELSE IF Len(cg.Version) > 0 THEN 3
    ELSE IF Len(cg.Artifact) > 0 THEN 2
    ELSE 1

\* C7: notation round trip.  For every Gav whose five fields hold neither
\* ':' nor '@' (any of them may be empty), Concise(g.ConciseNotation())
\* equals g field by field.
C7_RoundTrip ==
    (cpc = "parsed" /\ SeparatorFree(cg)) =>
        /\ parsed.Group = cg.Group
        /\ parsed.Artifact = cg.Artifact
        /\ parsed.Version = cg.Version
        /\ parsed.Classifier = cg.Classifier
        /\ parsed.Packaging = cg.Packaging

\* a separator-free Gav with an empty field between two present ones and a
\* packaging has been rendered and parsed back
C7_Witness ==
    /\ cpc = "parsed"
    /\ SeparatorFree(cg)
    /\ cg.Group = <<"g", ".">>
    /\ cg.Artifact = <<>>
    /\ cg.Version = <<"1">>
    /\ cg.Packaging = <<"w", "a", "r">>
    /\ text = <<"g", ".", ":", ":", "1", "@", "w", "a", "r">>
    /\ parsed = cg

\* C8: DefaultLayout is group-with-every-'.'-replaced-by-'/' + '/' +
\* Artifact + '/' + Version + '/' + Filename(), and the result never begins
\* with '/'.  The claim as stated, for every Gav.
C8_DefaultLayoutNoLeadingSlash ==
    cpc = "laidout" =>
        /\ layout = [i \in 1..Len(cg.Group) |->
                        IF cg.Group[i] = "." THEN "/" ELSE cg.Group[i]]
                    \o <<"/">> \o cg.Artifact \o <<"/">> \o cg.Version
                    \o <<"/">> \o Filename(cg)
        /\ layout[1] # "/"

\* C10 as stated, read in the claim's favour for Gavs whose fields hold no
\* separator character: the text before the '@packaging' part has no empty
\* segment between two ':' and does not end with ':', and '@' + Packaging
\* is appended if and only if Packaging is non-empty.
C10_NoGapNoTrailingSeparator ==
    (cpc = "rendered" /\ SeparatorFree(cg)) =>
        LET segs == Split(NotationHead, ":")
        IN  /\ \A i \in 2..(Len(segs) - 1) : segs[i] # <<>>
            /\ ~HasSuffix(NotationHead, <<":">>)
            /\ text = NotationHead \o PackagingPart
            /\ ~Has(NotationHead, "@")

\* C10 amended.  For every Gav whose fields hold no separator character: a
\* ':' is written only in front of a later present field, so the text
\* before the '@packaging' part does not end with ':' and has exactly one
\* segment per field up to the last present one, an absent field in front
\* of a present one being rendered as an empty segment (g::v); '@' +
\* Packaging is appended if and only if Packaging is non-empty.
C10_SeparatorsOnlyBeforePresentField ==
    (cpc = "rendered" /\ SeparatorFree(cg)) =>
        LET segs   == Split(NotationHead, ":")
            fields == <<cg.Group, cg.Artifact, cg.Version, cg.Classifier>>
        IN  /\ ~HasSuffix(NotationHead, <<":">>)
            /\ Len(segs) = LastPresent
            /\ \A i \in 1..Len(segs) : segs[i] = fields[i]
            /\ text = NotationHead \o PackagingPart
            /\ ~Has(NotationHead, "@")

\* the gap case has been rendered: Group and Version present, Artifact not
C10_Witness ==
    /\ cpc = "rendered"
    /\ SeparatorFree(cg)
    /\ cg.Group = <<"g">>
    /\ cg.Artifact = <<>>
    /\ cg.Version = <<"1">>
    /\ cg.Classifier = <<>>
    /\ cg.Packaging = <<>>
    /\ text = <<"g", ":", ":", "1">>

\* ------------------------------------------------------------------------
\* Properties of the search result projector (checked under SpecProj)
\* ------------------------------------------------------------------------

\* the number of links of the first j hits of an artifact
RECURSIVE LinksOfHits(_, _)
LinksOfHits(a, j) ==
    IF j = 0 THEN 0
    ELSE LinksOfHits(a, j - 1) + Len(a.ArtifactHits[j].ArtifactLinks)

\* the number of links of the first n artifacts of a response
RECURSIVE LinksOfArtifacts(_, _)
LinksOfArtifacts(r, n) ==
    IF n = 0 THEN 0
    ELSE LinksOfArtifacts(r, n - 1)
             + LinksOfHits(r.Artifacts[n], Len(r.Artifacts[n].ArtifactHits))

\* C6: locations(res, inst) returns exactly one Fqa per (artifact group,
\* repository hit, artifact link) triple of the response, in response order
\* (group outermost, then hit, then link), each combining the group's
\* Group/Artifact/Version with the link's Classifier/Packaging and the hit's
\* RepositoryID under inst; its length is the sum over groups and hits of
\* the number of links, so a group with no hits or a hit with no links
\* contributes nothing.
C6_LocationsFlattenInOrder ==
    ppc = "projected" =>
        /\ Len(pls) = LinksOfArtifacts(pres, Len(pres.Artifacts))
        /\ \A n \in 1..Len(pres.Artifacts) :
            LET a == pres.Artifacts[n]
            IN  \A j \in 1..Len(a.ArtifactHits) :
                    LET hit == a.ArtifactHits[j]
                    IN  \A k \in 1..Len(hit.ArtifactLinks) :
                            LET link == hit.ArtifactLinks[k]
                                rank == LinksOfArtifacts(pres, n - 1)
                                            + LinksOfHits(a, j - 1) + k
                            IN  /\ pls[rank].Instance = DefaultInstance
                                /\ pls[rank].RepositoryID = hit.RepositoryID
                                /\ pls[rank].Gav.Group = a.Group
                                /\ pls[rank].Gav.Artifact = a.Artifact
                                /\ pls[rank].Gav.Version = a.Version
                                /\ pls[rank].Gav.Classifier = link.Classifier
                                /\ pls[rank].Gav.Packaging = link.Packaging

\* a response whose first group has no hit and whose second has two hits of
\* two links each has been projected to four entries
C6_Witness ==
    /\ ppc = "projected"
    /\ Len(pres.Artifacts) = 2
    /\ Len(pres.Artifacts[1].ArtifactHits) = 0
    /\ Len(pres.Artifacts[2].ArtifactHits) = 2
    /\ \A j \in 1..2 : Len(pres.Artifacts[2].ArtifactHits[j].ArtifactLinks) = 2
    /\ Len(pls) = 4
    /\ pls[2].RepositoryID = <<"r", "1">>
    /\ pls[2].Gav.Classifier = <<"2">>
    /\ pls[3].RepositoryID = <<"r", "2">>
    /\ pls[3].Gav.Classifier = <<"1">>

\* ------------------------------------------------------------------------
\* Properties of a run of main (checked under Spec)
\* ------------------------------------------------------------------------

\* the number of entries of log of the given kind
Count(ev) == Cardinality({n \in 1..Len(log) : log[n].ev = ev})

\* main has built its fqa from the command line
InputBuilt == pc # "start" /\ how # "usage"

\* the input Fqa has RepositoryID, Group, Artifact and Version all non-empty
InputComplete ==
    /\ fqa.RepositoryID # <<>>
    /\ fqa.Gav.Group # <<>>
    /\ fqa.Gav.Artifact # <<>>
    /\ fqa.Gav.Version # <<>>

\* the search returned and its response has been projected
Located ==
    /\ InputBuilt
    /\ ~InputComplete
    /\ \/ pc \in {"loop", "persistFetched"}
       \/ pc = "done" /\ ~(how = "fatal" /\ Len(log) = 1)

\* C1: path selection.  With a fully specified input (RepositoryID, Group,
\* Artifact, Version all non-empty) no Search is ever issued and exactly
\* one direct call is made: Content, followed by a persist, when fetch is
\* requested; Resolve, followed by printing and with no file persisted,
\* when it is not.  With any other input exactly one Search is issued and
\* it precedes every fetch.  (A call that fails ends the run where it is.)
C1_PathSelection ==
    InputBuilt =>
        IF InputComplete
        THEN /\ Count("search") = 0
             /\ Count("fetch") = 0
             /\ Count("content") + Count("resolve") <= 1
             /\ pc = "done" => Count("content") + Count("resolve") = 1
             /\ cmd.fetch =>
                 /\ Count("resolve") = 0
                 /\ Count("print") = 0
                 /\ \A n \in 1..Len(log) :
                        log[n].ev = "persist" => n = 2 /\ log[1].ev = "content"
                 /\ (pc = "done" /\ how = "exit") =>
                        Len(log) = 2 /\ log[2].ev = "persist"
             /\ ~cmd.fetch =>
                 /\ Count("content") = 0
                 /\ Count("persist") = 0
                 /\ \A n \in 1..Len(log) :
                        log[n].ev = "print" => n = 2 /\ log[1].ev = "resolve"
                 /\ (pc = "done" /\ how = "exit") =>
                        Len(log) = 2 /\ log[2].ev = "print"
        ELSE /\ Count("content") = 0
             /\ Count("resolve") = 0
             /\ Count("print") = 0
             /\ Count("search") <= 1
             /\ pc # "search" => Count("search") = 1 /\ log[1].ev = "search"
             /\ \A n \in 1..Len(log) :
                    log[n].ev \in {"fetch", "persist"} =>
                        \E m \in 1..(n - 1) : log[m].ev = "search"

\* a fully specified input with fetch requested has ended after one Content
\* call and one persist
C1_Witness ==
    /\ pc = "done"
    /\ how = "exit"
    /\ InputComplete
    /\ cmd.fetch
    /\ Len(log) = 2
    /\ log[1].ev = "content"
    /\ log[2].ev = "persist"

\* C2: filename(userSupplied, response, gav) returns the user-supplied name
\* when it is non-empty; otherwise the name of the Content-Disposition
\* header when the header has the form attachment; filename="..."; and
\* otherwise, header absent or of another form included, it returns
\* gav.Filename() without failing.  (A header of that form with an empty
\* name is allowed to fall through to gav.Filename(), as the code does.)
C2_FilenamePrecedence ==
    named.called =>
        LET cd == named.cd
            formed == /\ Len(cd) >= 3
                      /\ cd[1] = Attachment
                      /\ cd[2] = Quote
                      /\ cd[Len(cd)] = Quote
        IN  /\ ~named.panic
            /\ named.name =
                   IF named.userSupplied # <<>> THEN named.userSupplied
                   ELSE IF formed /\ Len(cd) > 3 THEN SubSeq(cd, 3, Len(cd) - 1)
                   ELSE Filename(named.gav)

\* C3: with a fully specified input, a Content or Resolve response of
\* status 404 and abortOnNotFound set, the process ends with exit code 4.
C3_NotFoundExitsWith4 ==
    (/\ pc = "done"
     /\ InputBuilt
     /\ InputComplete
     /\ cmd.abortOnNotFound
     /\ Len(log) >= 1
     /\ log[1].ev \in {"content", "resolve"}
     /\ log[1].status = StatusNotFound) => exitCode = 4

\* the entries of the projected list that are not POMs
NonPoms == {k \in 1..Len(ls) : ls[k].Gav.Packaging # Pom}

\* C4 as stated: on the search path with abortOnNotFound set, when the
\* projected list has no entry left once the POMs are excluded (the list
\* of POMs only included), the process ends with exit code 4 and fetches
\* nothing.
C4_AbortOnEmptyFilteredList ==
    (Located /\ pc = "done" /\ cmd.abortOnNotFound /\ NonPoms = {}) =>
        exitCode = 4 /\ Count("fetch") = 0

\* C4 amended: on the search path with abortOnNotFound set, when the
\* projected list itself is empty the process ends with exit code 4 and
\* fetches nothing; when it holds POMs only, nothing is fetched and the run
\* ends with success.
C4_AbortOnEmptyProjectedList ==
    (Located /\ cmd.abortOnNotFound) =>
        /\ ls = <<>> =>
               pc = "done" /\ exitCode = 4 /\ Count("fetch") = 0
        /\ (ls # <<>> /\ NonPoms = {}) =>
               /\ Count("fetch") = 0
               /\ pc = "done" => exitCode = 0

\* a response with an artifact but no hit was projected to the empty list
\* and the run ended with 4
C4_Witness ==
    /\ Located
    /\ cmd.abortOnNotFound
    /\ Len(res.Artifacts) > 0
    /\ ls = <<>>
    /\ pc = "done"
    /\ exitCode = 4

\* C5: every projected entry that is fetched (Packaging not pom) is
\* requested from the redirect URL (service/local/artifact/maven/redirect
\* with r, g, a, v, p) if and only if its Version ends with SNAPSHOT, and
\* otherwise, LATEST included, from content/repositories/{repositoryId}/
\* {DefaultLayout}.
C5_SnapshotRouting ==
    /\ \A n \in 1..Len(log) :
        log[n].ev = "fetch" =>
            LET a    == ls[log[n].k]
                v    == a.Gav.Version
                snap == \E m \in 0..Len(v) :
                            SubSeq(v, m + 1, Len(v)) =
                                <<"S", "N", "A", "P", "S", "H", "O", "T">>
            IN  /\ a.Gav.Packaging # Pom
                /\ log[n].url =
                       IF snap
                       THEN <<"http://localhost:8081/nexus/",
                              "service/local/artifact/maven/redirect", "?r=">>
                                \o a.RepositoryID \o <<"&g=">> \o a.Gav.Group
                                \o <<"&a=">> \o a.Gav.Artifact
                                \o <<"&v=">> \o v
                                \o <<"&p=">> \o a.Gav.Packaging
                       ELSE <<"http://localhost:8081/nexus/",
                              "content/repositories/">>
                                \o a.RepositoryID \o <<"/">>
                                \o DefaultLayout(a.Gav)
    /\ (Located /\ cmd.fetch) =>
           \A k \in NonPoms :
               k < idx => \E n \in 1..Len(log) :
                              log[n].ev = "fetch" /\ log[n].k = k

\* a run has fetched a SNAPSHOT entry, then a LATEST entry
C5_Witness ==
    \E n \in 1..Len(log) : \E m \in (n + 1)..Len(log) :
        /\ log[n].ev = "fetch"
        /\ log[m].ev = "fetch"
        /\ log[n].url[2] = "service/local/artifact/maven/redirect"
        /\ log[m].url[2] = "content/repositories/"
        /\ ls[log[m].k].Gav.Version = <<"L", "A", "T", "E", "S", "T">>

\* C9: whenever a Search, Resolve, Content or per-result fetch call returns
\* a network error (status 0 here) or a non-2xx status, that attempt
\* aborts, nothing is persisted for it, the call is not retried and the
\* process ends with a failure: the failed call is the last thing the run
\* did and the exit code is not 0.
C9_TransportFailureIsFatal ==
    pc = "done" =>
        \A n \in 1..Len(log) :
            (/\ log[n].ev \in {"search", "resolve", "content", "fetch"}
             /\ log[n].status \notin 200..299) =>
                n = Len(log) /\ exitCode # 0

\* the command line gives a positional argument together with at least one
\* of -group, -artifact, -version, -packaging, -classifier
MixedInput == cmd.nargs >= 1 /\ cmd.flags # EmptyGav

\* C11: when the command line gives both a positional concise-notation
\* argument and at least one coordinate flag, the process reports a usage
\* error and ends with exit code 2 before any Search, Resolve, Content or
\* fetch call is made.
C11_MixedInputIsUsageError ==
    (MixedInput /\ pc # "start") =>
        /\ pc = "done"
        /\ how = "usage"
        /\ exitCode = 2
        /\ log = <<>>

\* a Search response with TooManyResults set has been received and main has
\* gone past its test on the projected list, with abortOnNotFound not set
Truncated == res.TooManyResults /\ ~cmd.abortOnNotFound /\ pc # "locate"

AdvertisesName(cd) ==
    /\ Len(cd) > 3
    /\ cd[1] = Attachment
    /\ cd[2] = Quote
    /\ cd[Len(cd)] = Quote

\* C13: on the search path, an entry that is fetched with no output
\* filename given by the user and no usable name advertised by the response
\* is persisted under the Filename computed from that entry's own
\* coordinate (Group, Artifact, Version, Classifier, Packaging of the
\* search response), not from the partial coordinate of the command line;
\* entries of different Filenames are therefore written to different paths.
C13_NamedAfterOwnCoordinate ==
    LET n == Len(log)
    IN  (/\ n >= 1
         /\ log[n].ev = "persist"
         /\ log[n].k > 0
         /\ named.userSupplied = <<>>
         /\ ~AdvertisesName(named.cd)) =>
            log[n].path = Filename(ls[log[n].k].Gav)

====
